---- MODULE Spec2Model ----
(***************************************************************************)
(* A model of the systemts collections: Dictionary (two parallel Lists),   *)
(* Queue, List and ReadOnlyCollection over JavaScript arrays.              *)
(*                                                                         *)
(* JavaScript values are modelled as strings.  Arrays are sequences; the   *)
(* code's indices are 0-based, so index i of the code is position i+1 of   *)
(* the sequence.                                                           *)
(***************************************************************************)
EXTENDS Integers, Sequences, FiniteSets, TLC

VARIABLES
    keys,       \* Dictionary.keys   : the container array of the key List
    values,     \* Dictionary.values : the container array of the value List
    q,          \* Queue.container (shared with Queue.readonly.arr)
    list,       \* List.container  (shared with List.readonly.arr)
    arr,        \* ReadOnlyCollection.arr of a stand-alone wrapper
    readonly,   \* List.readonly: whether its arr is the array List.container
                \* refers to, and the array it wraps when it is not
    held,       \* a collection an earlier call returned, kept by the caller
    op,         \* the last call made: its name and arguments
    ret,        \* the value that call returned
    fault,      \* "none", or the error the call raised
    pre,        \* the containers as they were when the call began
    amap,       \* history: for each key, <<v>> for the latest put not yet removed
    enq,        \* history: every value enqueued so far, in call order
    deq,        \* history: every value returned by dequeue on a non-empty queue
    itKind,     \* the receiver of the running until / fromLastUntil
    itDir,      \* "until" or "fromLastUntil"
    itI,        \* the loop variable i of the running iteration
    itCalls,    \* the calls of action made so far: value, index, returned value
    itPc        \* "idle", "loop" or "done"

dictVars == <<keys, values, amap>>
queueVars == <<q, enq, deq>>
seqVars == <<list, arr, readonly>>
callVars == <<op, ret, fault, pre, held>>
iterVars == <<itKind, itDir, itI, itCalls, itPc>>
vars == <<keys, values, amap, q, enq, deq, list, arr, readonly, op, ret, fault, pre, held,
          itKind, itDir, itI, itCalls, itPc>>

----------------------------------------------------------------------------
(* Bounds of the model *)

\* the number of entries a Dictionary grows to
MaxLen == 3
\* the number of enqueue calls made on a Queue
MaxEnq == 4
\* the length of a sequence that is iterated
MaxIterLen == 3
\* the length of the second sequence of zip
MaxOtherLen == 2
\* the length a List under its own methods grows to
MaxListLen == 3
\* the length a List grows to by addRange
MaxRangeLen == 4
\* the number of registrations an Event holds
MaxHandlers == 3
\* the number of assignments to the fields of the pairs a caller holds
MaxAssigns == 2

----------------------------------------------------------------------------
(* JavaScript values *)

\* the value of a missing property, {}['____nonExistingProperty']
Undefined == "undefined"
NaN == "NaN"
\* an index of an array that holds no element
Hole == "<hole>"

Keys == {"a", "b", NaN}
Values == {"v1", "v2", Undefined}
Elems == {"x", "y", Undefined}

\* the sequences over S of length at most n
SeqsUpTo(S, n) == UNION {[1..k -> S] : k \in 0..n}

Min(a, b) == IF a < b THEN a ELSE b
Max(a, b) == IF a > b THEN a ELSE b

\* a === b
StrictEquals(a, b) == a = b /\ a # NaN

\* a[i]: undefined outside the array and at a hole
Array_get(a, i) ==
    IF i >= 0 /\ i < Len(a) /\ a[i + 1] # Hole THEN a[i + 1] ELSE Undefined

\* a.indexOf(x): the lowest index holding a value === x, or -1
Array_indexOf(a, x) ==
    IF \E i \in 1..Len(a) : StrictEquals(a[i], x)
    THEN (CHOOSE i \in 1..Len(a) :
              /\ StrictEquals(a[i], x)
              /\ \A j \in 1..(i - 1) : ~StrictEquals(a[j], x)) - 1
    ELSE -1

\* a.push(x)
Array_push(a, x) == Append(a, x)

\* the index at which a.splice(start, ...) begins
Array_spliceStart(a, start) ==
    IF start < 0 THEN Max(Len(a) + start, 0) ELSE Min(start, Len(a))

\* the array a.splice(start, 1) returns
Array_spliceRemoved(a, start) ==
    LET s == Array_spliceStart(a, start)
    IN  SubSeq(a, s + 1, Min(s + 1, Len(a)))

\* the array a after a.splice(start, 1)
Array_spliceRest(a, start) ==
    LET s == Array_spliceStart(a, start)
    IN  SubSeq(a, 1, s) \o SubSeq(a, s + 2, Len(a))

\* Array.reverse that leaves the order as it is
Array_reverse_keepsOrder(a) == a

\* the array a after a.reverse(), which reverses a in place
Array_reverse(a) == [i \in 1..Len(a) |-> a[Len(a) + 1 - i]]

----------------------------------------------------------------------------
(* List: the methods the other containers build on *)

List_add(c, item) == Array_push(c, item)

\* at that counts a negative index from the end
List_at_fromEnd(c, index) == Array_get(c, IF index < 0 THEN Len(c) + index ELSE index)

List_at(c, index) == Array_get(c, index)

List_indexOf(c, item) == Array_indexOf(c, item)

List_length(c) == Len(c)

\* this.container[index] = item
List_put(c, index, item) ==
    IF index < 0 THEN c
    ELSE IF index < Len(c) THEN [c EXCEPT ![index + 1] = item]
    ELSE [i \in 1..(index + 1) |->
              IF i <= Len(c) THEN c[i] ELSE IF i = index + 1 THEN item ELSE Hole]

\* the value List.removeAt(index) returns
List_removeAt_result(c, index) == Array_get(Array_spliceRemoved(c, index), 0)

\* removeAt that always drops the last element
List_removeAt_dropsLast(c, index) == SubSeq(c, 1, Len(c) - 1)

\* the container after List.removeAt(index)
List_removeAt(c, index) == Array_spliceRest(c, index)

\* remove that takes out the occurrence of highest index
List_remove_lastOccurrence(c, item) ==
    IF Array_indexOf(c, item) # -1
    THEN LET i == CHOOSE i \in 1..Len(c) :
                      /\ StrictEquals(c[i], item)
                      /\ \A j \in (i + 1)..Len(c) : ~StrictEquals(c[j], item)
         IN  Array_spliceRest(c, i - 1)
    ELSE c

\* the container after List.remove(item):
\* if ((i = this.container.indexOf(item)) !== -1) this.container.splice(i, 1)
List_remove(c, item) ==
    LET i == Array_indexOf(c, item)
    IN  IF i # -1 THEN Array_spliceRest(c, i) ELSE c

\* the container after List.clear(): this.container.length = 0
List_clear(c) == <<>>

----------------------------------------------------------------------------
(* ReadOnlyCollection *)

\* first() without a predicate
ReadOnlyCollection_first(a) == Array_get(a, 0)

ReadOnlyCollection_length(a) == Len(a)

----------------------------------------------------------------------------
(* The call record *)

Snapshot == [keys |-> keys, values |-> values, q |-> q, list |-> list, arr |-> arr]

\* the record of a call that returns a collection h the caller keeps
CalledHolding(o, r, f, h) ==
    /\ op' = o
    /\ ret' = r
    /\ fault' = f
    /\ pre' = Snapshot
    /\ held' = h

Called(o, r, f) == CalledHolding(o, r, f, held)

----------------------------------------------------------------------------
(* A List under its own methods.  removeAll is a loop and runs one round at
   a time; no other call starts while it runs. *)

ListItems == {"x", "y", NaN}

\* the indices at, put and removeAt are called with
ListIndices == (-2)..MaxListLen

\* a call of removeAll is in its loop
List_removeAll_running == op.name = "removeAll" /\ ~op.done

\* the array List.readonly reads: this.container, handed to its constructor
List_readonly_arr == IF readonly.alias THEN list ELSE readonly.arr

\* a loop over the List is running
List_busy == List_removeAll_running \/ itPc = "loop"

\* the locals of a loop that has returned are gone
IterationOver ==
    /\ itKind' = "none"
    /\ itDir' = "none"
    /\ itI' = 0
    /\ itCalls' = <<>>
    /\ itPc' = "idle"

\* a call on the List that touches no other container
ListCall(o, r) ==
    /\ ~List_busy
    /\ Called(o, r, "none")
    /\ arr' = arr
    /\ readonly' = readonly
    /\ IterationOver
    /\ UNCHANGED <<dictVars, queueVars>>

ListCall_add(item) ==
    /\ Len(list) < MaxListLen
    /\ list' = List_add(list, item)
    /\ ListCall([name |-> "add", item |-> item], Undefined)

ListCall_at(index) ==
    /\ list' = list
    /\ ListCall([name |-> "at", index |-> index], List_at(list, index))

ListCall_put(index, item) ==
    /\ index >= 0 /\ index < MaxListLen
    /\ list' = List_put(list, index, item)
    /\ ListCall([name |-> "put", index |-> index, item |-> item], Undefined)

ListCall_removeAt(index) ==
    /\ list' = List_removeAt(list, index)
    /\ ListCall([name |-> "removeAt", index |-> index], List_removeAt_result(list, index))

ListCall_remove(item) ==
    /\ list' = List_remove(list, item)
    /\ ListCall([name |-> "remove", item |-> item], Undefined)

\* clear that gives the List a new empty array: this.container = []
ListCall_clear_newArray ==
    /\ ~List_busy
    /\ list' = <<>>
    /\ readonly' = [alias |-> FALSE, arr |-> List_readonly_arr]
    /\ Called([name |-> "clear"], Undefined, "none")
    /\ arr' = arr
    /\ IterationOver
    /\ UNCHANGED <<dictVars, queueVars>>

\* this.container.length = 0: the array the readonly wraps is emptied
ListCall_clear ==
    /\ list' = List_clear(list)
    /\ ListCall([name |-> "clear"], Undefined)

\* the call of removeAll(item): var i; the loop is entered
ListCall_removeAll(item) ==
    /\ list' = list
    /\ ListCall([name |-> "removeAll", item |-> item, done |-> FALSE], Undefined)

\* a round of removeAll whose splice removes nothing
List_removeAll_round_removesNothing ==
    /\ List_removeAll_running
    /\ LET i == Array_indexOf(list, op.item)
       IN  IF i # -1
           THEN list' = list /\ op' = op
           ELSE list' = list /\ op' = [op EXCEPT !.done = TRUE]
    /\ UNCHANGED <<ret, fault, pre, held, arr, readonly, dictVars, queueVars, iterVars>>

\* one round of while ((i = this.container.indexOf(item)) !== -1)
\*                  this.container.splice(i, 1);
List_removeAll_round ==
    /\ List_removeAll_running
    /\ LET i == Array_indexOf(list, op.item)
       IN  IF i # -1
           THEN list' = Array_spliceRest(list, i) /\ op' = op
           ELSE list' = list /\ op' = [op EXCEPT !.done = TRUE]
    /\ UNCHANGED <<ret, fault, pre, held, arr, readonly, dictVars, queueVars, iterVars>>

\* the array each() of the collection handed to addRange runs forEach on:
\* the array of List.readonly when the collection is the List itself, else
\* the array of the ReadOnlyCollection handed in, which no round changes
List_addRange_source == IF op.self THEN List_readonly_arr ELSE op.source

\* the call of addRange(collection): collection.each((v) => this.add(v));
\* Array.forEach reads the length of the array once, before its first round
ListCall_addRange(self, source) ==
    /\ ~List_busy
    /\ self => source = List_readonly_arr
    /\ Len(list) + Len(source) <= MaxRangeLen
    /\ Called([name |-> "addRange", self |-> self, source |-> source,
                len |-> Len(source)], Undefined, "none")
    /\ itKind' = IF self THEN "List" ELSE "ReadOnlyCollection"
    /\ itDir' = "each"
    /\ itI' = 0
    /\ itCalls' = <<>>
    /\ itPc' = "loop"
    /\ UNCHANGED <<dictVars, queueVars, seqVars>>

\* a round of forEach that goes on while k <= len
List_addRange_round_oneMore ==
    /\ op.name = "addRange" /\ itPc = "loop"
    /\ LET a == List_addRange_source
       IN  IF itI <= op.len
           THEN /\ IF itI < Len(a) /\ a[itI + 1] # Hole
                   THEN /\ list' = List_add(list, a[itI + 1])
                        /\ itCalls' = Append(itCalls, [value |-> a[itI + 1], index |-> itI,
                                                      ret |-> Undefined])
                   ELSE UNCHANGED <<list, itCalls>>
                /\ itI' = itI + 1
                /\ itPc' = itPc
           ELSE /\ itPc' = "done"
                /\ UNCHANGED <<list, itCalls, itI>>
    /\ UNCHANGED <<itKind, itDir, callVars, arr, readonly, dictVars, queueVars>>

\* one round of the forEach that addRange runs: for k from 0 while k < len,
\* if the array has an element at k, the callback this.add(v) is called on it
List_addRange_round ==
    /\ op.name = "addRange" /\ itPc = "loop"
    /\ LET a == List_addRange_source
       IN  IF itI < op.len
           THEN /\ IF itI < Len(a) /\ a[itI + 1] # Hole
                   THEN /\ list' = List_add(list, a[itI + 1])
                        /\ itCalls' = Append(itCalls, [value |-> a[itI + 1], index |-> itI,
                                                      ret |-> Undefined])
                   ELSE UNCHANGED <<list, itCalls>>
                /\ itI' = itI + 1
                /\ itPc' = itPc
           ELSE /\ itPc' = "done"
                /\ UNCHANGED <<list, itCalls, itI>>
    /\ UNCHANGED <<itKind, itDir, callVars, arr, readonly, dictVars, queueVars>>

----------------------------------------------------------------------------
(* Dictionary *)

Dictionary_length == List_length(keys)

Dictionary_getKeys == keys

Dictionary_getValues == values

\* new KeyValuePair(this.keys.at(i), this.values.at(i)) over the lists ks, vs
KeyValuePair(ks, vs, i) == [key |-> List_at(ks, i), value |-> List_at(vs, i)]

\* the list toList() builds from the key list ks and the value list vs
Dictionary_entries(ks, vs) ==
    [i \in 1..List_length(ks) |-> KeyValuePair(ks, vs, i - 1)]

Dictionary_toList == Dictionary_entries(keys, values)

\* Dictionary.getUndefinedValue
Dictionary_getUndefinedValue == Undefined

\* put with the test written index > 0
Dictionary_put_skipsIndex0(key, value) ==
    LET index == List_indexOf(keys, key)
    IN  /\ index > 0 \/ Len(keys) < MaxLen
        /\ IF index > 0
           THEN /\ values' = List_put(values, index, value)
                /\ keys' = keys
           ELSE /\ keys' = List_add(keys, key)
                /\ values' = List_add(values, value)
        /\ amap' = [k \in Keys |-> IF StrictEquals(k, key) THEN <<value>> ELSE amap[k]]
        /\ Called([name |-> "put", key |-> key, value |-> value], Undefined, "none")
        /\ UNCHANGED <<queueVars, seqVars, iterVars>>

\* put that moves an existing key to the tail
Dictionary_put_movesToTail(key, value) ==
    LET index == List_indexOf(keys, key)
    IN  /\ index > -1 \/ Len(keys) < MaxLen
        /\ IF index > -1
           THEN /\ keys' = List_add(List_removeAt(keys, index), key)
                /\ values' = List_add(List_removeAt(values, index), value)
           ELSE /\ keys' = List_add(keys, key)
                /\ values' = List_add(values, value)
        /\ amap' = [k \in Keys |-> IF StrictEquals(k, key) THEN <<value>> ELSE amap[k]]
        /\ Called([name |-> "put", key |-> key, value |-> value], Undefined, "none")
        /\ UNCHANGED <<queueVars, seqVars, iterVars>>

Dictionary_put(key, value) ==
    LET index == List_indexOf(keys, key)
    IN  /\ index > -1 \/ Len(keys) < MaxLen
        /\ IF index > -1
           THEN /\ values' = List_put(values, index, value)
                /\ keys' = keys
           ELSE /\ keys' = List_add(keys, key)
                /\ values' = List_add(values, value)
        /\ amap' = [k \in Keys |-> IF StrictEquals(k, key) THEN <<value>> ELSE amap[k]]
        /\ Called([name |-> "put", key |-> key, value |-> value], Undefined, "none")
        /\ UNCHANGED <<queueVars, seqVars, iterVars>>

\* remove that forgets this.values.removeAt(index)
Dictionary_remove_keysOnly(key) ==
    LET index == List_indexOf(keys, key)
    IN  /\ IF index > -1
           THEN /\ keys' = List_removeAt(keys, index)
                /\ values' = values
                /\ Called([name |-> "remove", key |-> key],
                          List_at(values, index), "none")
           ELSE /\ UNCHANGED <<keys, values>>
                /\ Called([name |-> "remove", key |-> key],
                          Dictionary_getUndefinedValue, "none")
        /\ amap' = [k \in Keys |-> IF StrictEquals(k, key) THEN <<>> ELSE amap[k]]
        /\ UNCHANGED <<queueVars, seqVars, iterVars>>

\* remove that reads the value only after both removeAt calls
Dictionary_remove_readsAfter(key) ==
    LET index == List_indexOf(keys, key)
    IN  /\ IF index > -1
           THEN /\ keys' = List_removeAt(keys, index)
                /\ values' = List_removeAt(values, index)
                /\ Called([name |-> "remove", key |-> key],
                          List_at(List_removeAt(values, index), index), "none")
           ELSE /\ UNCHANGED <<keys, values>>
                /\ Called([name |-> "remove", key |-> key],
                          Dictionary_getUndefinedValue, "none")
        /\ amap' = [k \in Keys |-> IF StrictEquals(k, key) THEN <<>> ELSE amap[k]]
        /\ UNCHANGED <<queueVars, seqVars, iterVars>>

Dictionary_remove(key) ==
    LET index == List_indexOf(keys, key)
    IN  /\ IF index > -1
           THEN /\ keys' = List_removeAt(keys, index)
                /\ values' = List_removeAt(values, index)
                /\ Called([name |-> "remove", key |-> key],
                          List_removeAt_result(values, index), "none")
           ELSE /\ UNCHANGED <<keys, values>>
                /\ Called([name |-> "remove", key |-> key],
                          Dictionary_getUndefinedValue, "none")
        /\ amap' = [k \in Keys |-> IF StrictEquals(k, key) THEN <<>> ELSE amap[k]]
        /\ UNCHANGED <<queueVars, seqVars, iterVars>>

\* retrieve that answers from the key list
Dictionary_retrieve_fromKeys(key) ==
    LET index == List_indexOf(keys, key)
    IN  /\ Called([name |-> "retrieve", key |-> key],
                  IF index > -1 THEN List_at(keys, index)
                  ELSE Dictionary_getUndefinedValue,
                  "none")
        /\ UNCHANGED <<dictVars, queueVars, seqVars, iterVars>>

Dictionary_retrieve(key) ==
    LET index == List_indexOf(keys, key)
    IN  /\ Called([name |-> "retrieve", key |-> key],
                  IF index > -1 THEN List_at(values, index)
                  ELSE Dictionary_getUndefinedValue,
                  "none")
        /\ UNCHANGED <<dictVars, queueVars, seqVars, iterVars>>

Dictionary_containsKey(key) ==
    /\ Called([name |-> "containsKey", key |-> key],
              IF List_indexOf(keys, key) > -1 THEN "true" ELSE "false",
              "none")
    /\ UNCHANGED <<dictVars, queueVars, seqVars, iterVars>>

----------------------------------------------------------------------------
(* Queries: the enumerable contract on a Dictionary and on the Lists that  *)
(* getKeys() and getValues() hand out.  Callbacks are taken to be pure.    *)

\* the methods of IEnumerable
EnumerableOps ==
    {"all", "any", "each", "first", "fromLastUntil", "last", "length",
     "reverse", "select", "toArray", "until", "where", "zip"}

\* the queries of a Dictionary: IEnumerable and toList
DictionaryQueries == EnumerableOps \cup {"toList"}

\* the container of a List after its IEnumerable method m has run: only
\* reverse, this.readonly.reverse() = this.arr.reverse(), writes to it
List_containerAfter(c, m) == IF m = "reverse" THEN Array_reverse(c) ELSE c

\* a query on the Dictionary itself; reverse() and toArray() work on the
\* fresh list of toList(), the others read keys.at(i) and values.at(i)
Dictionary_query(m) ==
    /\ Called([name |-> "query", method |-> m, on |-> "dictionary"],
              IF m = "reverse" THEN Array_reverse(Dictionary_toList)
              ELSE IF m \in {"toList", "toArray"} THEN Dictionary_toList
              ELSE Undefined,
              "none")
    /\ UNCHANGED <<dictVars, queueVars, seqVars, iterVars>>

\* getKeys() returns this.keys, the key List itself; m is called on it
Dictionary_getKeys_query(m) ==
    /\ keys' = List_containerAfter(keys, m)
    /\ UNCHANGED <<values, amap>>
    /\ Called([name |-> "query", method |-> m, on |-> "getKeys"],
              IF m \in {"reverse", "toArray"} THEN List_containerAfter(keys, m)
              ELSE Undefined,
              "none")
    /\ UNCHANGED <<queueVars, seqVars, iterVars>>

\* getValues() returns this.values, the value List itself; m is called on it
Dictionary_getValues_query(m) ==
    /\ values' = List_containerAfter(values, m)
    /\ UNCHANGED <<keys, amap>>
    /\ Called([name |-> "query", method |-> m, on |-> "getValues"],
              IF m \in {"reverse", "toArray"} THEN List_containerAfter(values, m)
              ELSE Undefined,
              "none")
    /\ UNCHANGED <<queueVars, seqVars, iterVars>>

----------------------------------------------------------------------------
(* Queue *)

Queue_length == Len(q)

\* enqueue that inserts at the head
Queue_enqueue_atHead(item) ==
    /\ Len(enq) < MaxEnq
    /\ q' = <<item>> \o q
    /\ enq' = Append(enq, item)
    /\ deq' = deq
    /\ Called([name |-> "enqueue", item |-> item], Undefined, "none")
    /\ UNCHANGED <<dictVars, seqVars, iterVars>>

Queue_enqueue(item) ==
    /\ Len(enq) < MaxEnq
    /\ q' = Array_push(q, item)
    /\ enq' = Append(enq, item)
    /\ deq' = deq
    /\ Called([name |-> "enqueue", item |-> item], Undefined, "none")
    /\ UNCHANGED <<dictVars, seqVars, iterVars>>

\* dequeue that takes the element at the tail
Queue_dequeue_fromTail ==
    /\ IF Queue_length > 0
       THEN /\ q' = Array_spliceRest(q, Len(q) - 1)
            /\ deq' = Append(deq, Array_get(Array_spliceRemoved(q, Len(q) - 1), 0))
            /\ Called([name |-> "dequeue"],
                      Array_get(Array_spliceRemoved(q, Len(q) - 1), 0), "none")
       ELSE /\ UNCHANGED <<q, deq>>
            /\ Called([name |-> "dequeue"], Array_get(q, 0), "none")
    /\ enq' = enq
    /\ UNCHANGED <<dictVars, seqVars, iterVars>>

\* dequeue that raises on an empty queue
Queue_dequeue_raisesOnEmpty ==
    /\ IF Queue_length > 0
       THEN /\ q' = Array_spliceRest(q, 0)
            /\ deq' = Append(deq, Array_get(Array_spliceRemoved(q, 0), 0))
            /\ Called([name |-> "dequeue"],
                      Array_get(Array_spliceRemoved(q, 0), 0), "none")
       ELSE /\ UNCHANGED <<q, deq>>
            /\ Called([name |-> "dequeue"], Undefined, "Error")
    /\ enq' = enq
    /\ UNCHANGED <<dictVars, seqVars, iterVars>>

\* (this.length() > 0) ? this.container.splice(0, 1)[0] : this.container[0]
Queue_dequeue ==
    /\ IF Queue_length > 0
       THEN /\ q' = Array_spliceRest(q, 0)
            /\ deq' = Append(deq, Array_get(Array_spliceRemoved(q, 0), 0))
            /\ Called([name |-> "dequeue"],
                      Array_get(Array_spliceRemoved(q, 0), 0), "none")
       ELSE /\ UNCHANGED <<q, deq>>
            /\ Called([name |-> "dequeue"], Array_get(q, 0), "none")
    /\ enq' = enq
    /\ UNCHANGED <<dictVars, seqVars, iterVars>>

\* first() without a predicate: this.readonly.first(undefined)
Queue_first ==
    /\ Called([name |-> "first"], ReadOnlyCollection_first(q), "none")
    /\ UNCHANGED <<dictVars, queueVars, seqVars, iterVars>>

----------------------------------------------------------------------------
(* until and fromLastUntil, one call of action per step.  action is taken  *)
(* not to change the receiver.                                             *)

\* the containers that implement until and fromLastUntil
Kinds == {"ReadOnlyCollection", "List", "Queue", "Dictionary"}

\* what action returns
Returns == {"false", "undefined", "0", "null", "true"}

\* the elements and values of the iterated containers
IterElems == {"x", "y"}
IterValues == {"v1", "v2"}

\* the array that the wrapper of the receiver reads: List and Queue pass
\* until and fromLastUntil on to this.readonly, built over this.container
ReadOnlyCollection_arr(kind) ==
    CASE kind = "List" -> List_readonly_arr
      [] kind = "Queue" -> q
      [] OTHER -> arr

\* length() of the receiver
Receiver_length(kind) ==
    IF kind = "Dictionary" THEN Dictionary_length
    ELSE ReadOnlyCollection_length(ReadOnlyCollection_arr(kind))

\* the call of until or fromLastUntil: the loop variable is initialised
Iteration_begin(kind, dir) ==
    /\ itPc \in {"idle", "done"}
    /\ itKind' = kind
    /\ itDir' = dir
    /\ itI' = IF dir = "until" THEN 0 ELSE Receiver_length(kind) - 1
    /\ itCalls' = <<>>
    /\ itPc' = "loop"
    /\ Called([name |-> dir, on |-> kind], Undefined, "none")
    /\ UNCHANGED <<dictVars, queueVars, seqVars>>

\* one round of the loop: action is called with value and itI and returns r;
\* stop tells whether the loop returns on r
Iteration_round(inRange, value, r, stop, next) ==
    /\ IF inRange
       THEN /\ itCalls' = Append(itCalls, [value |-> value, index |-> itI, ret |-> r])
            /\ IF stop
               THEN /\ itPc' = "done"
                    /\ itI' = itI
               ELSE /\ itPc' = "loop"
                    /\ itI' = next
       ELSE /\ itPc' = "done"
            /\ UNCHANGED <<itCalls, itI>>
    /\ UNCHANGED <<itKind, itDir, callVars, dictVars, queueVars, seqVars>>

\* until with the test written action(...) == false
ReadOnlyCollection_until_looseTest(r) ==
    /\ itPc = "loop" /\ itDir = "until" /\ itKind # "Dictionary"
    /\ LET a == ReadOnlyCollection_arr(itKind)
       IN  Iteration_round(itI < Len(a), Array_get(a, itI), r,
                           r \in {"false", "0"}, itI + 1)

\* for (var i = 0; i < this.arr.length; i += 1)
\*     if (action(this.arr[i], i) === false) return;
ReadOnlyCollection_until(r) ==
    /\ itPc = "loop" /\ itDir = "until" /\ itKind # "Dictionary"
    /\ LET a == ReadOnlyCollection_arr(itKind)
       IN  Iteration_round(itI < Len(a), Array_get(a, itI), r,
                           r = "false", itI + 1)

\* for (var i = this.arr.length - 1; i >= 0; i -= 1)
\*     if (action(this.arr[i], i) === false) return;
ReadOnlyCollection_fromLastUntil(r) ==
    /\ itPc = "loop" /\ itDir = "fromLastUntil" /\ itKind # "Dictionary"
    /\ LET a == ReadOnlyCollection_arr(itKind)
       IN  Iteration_round(itI >= 0, Array_get(a, itI), r,
                           r = "false", itI - 1)

\* for (var i = 0; i < this.length(); i += 1)
\*     if (action(new KeyValuePair(...), i) === false) return;
Dictionary_until(r) ==
    /\ itPc = "loop" /\ itDir = "until" /\ itKind = "Dictionary"
    /\ Iteration_round(itI < Dictionary_length, KeyValuePair(keys, values, itI), r,
                       r = "false", itI + 1)

\* for (var i = this.length() - 1; i >= 0; i -= 1)
\*     if (action(new KeyValuePair(...), i) === false) return;
Dictionary_fromLastUntil(r) ==
    /\ itPc = "loop" /\ itDir = "fromLastUntil" /\ itKind = "Dictionary"
    /\ Iteration_round(itI >= 0, KeyValuePair(keys, values, itI), r,
                       r = "false", itI - 1)

\* the call of each: Array.forEach reads the length of the array once, before
\* its first round
Each_begin(kind) ==
    /\ itPc \in {"idle", "done"}
    /\ itKind' = kind
    /\ itDir' = "each"
    /\ itI' = 0
    /\ itCalls' = <<>>
    /\ itPc' = "loop"
    /\ Called([name |-> "each", on |-> kind, len |-> Receiver_length(kind)],
              Undefined, "none")
    /\ UNCHANGED <<dictVars, queueVars, seqVars>>

\* one round of each: action is called with the arguments args and returns
\* r, which is not looked at
Each_round(inRange, present, args, r) ==
    /\ IF inRange
       THEN /\ itCalls' = IF present
                          THEN Append(itCalls, [args |-> args, ret |-> r])
                          ELSE itCalls
            /\ itI' = itI + 1
            /\ itPc' = "loop"
       ELSE /\ itPc' = "done"
            /\ UNCHANGED <<itCalls, itI>>
    /\ UNCHANGED <<itKind, itDir, callVars, dictVars, queueVars, seqVars>>

\* this.arr.forEach(action): action(this.arr[k], k) for every index k below
\* the length read at the call that has an element
ReadOnlyCollection_each(r) ==
    /\ itPc = "loop" /\ itDir = "each" /\ itKind # "Dictionary"
    /\ LET a == ReadOnlyCollection_arr(itKind)
       IN  Each_round(itI < op.len, itI < Len(a) /\ a[itI + 1] # Hole,
                      <<Array_get(a, itI), itI>>, r)

\* for (var i = 0; i < this.length(); i += 1)
\*     action(new KeyValuePair(this.keys.at(i), this.values.at(i)));
Dictionary_each(r) ==
    /\ itPc = "loop" /\ itDir = "each" /\ itKind = "Dictionary"
    /\ Each_round(itI < Dictionary_length, TRUE,
                  <<KeyValuePair(keys, values, itI)>>, r)

----------------------------------------------------------------------------
(* Queries that take a predicate.  A predicate is the set of the elements it
   holds for; an until callback is the function from the element it is called
   with to the value it returns. *)

\* the pairs a predicate on a Dictionary is asked about
Pairs == [key : Keys, value : IterValues]

\* the values a predicate on the receiver is asked about
ElemDomain(kind) == IF kind = "Dictionary" THEN Pairs ELSE IterElems

\* the elements of the array a
Range(a) == {a[i] : i \in 1..Len(a)}

\* undefined where an object (a KeyValuePair, a collection) is expected
UndefinedObject == [undefined |-> TRUE]

\* private static getUndefinedKeyValue(): return undefined
Dictionary_getUndefinedKeyValue == UndefinedObject

\* the indices ReadOnlyCollection.until calls action with, from index i on
RECURSIVE ReadOnlyCollection_untilFrom(_, _, _)
ReadOnlyCollection_untilFrom(a, action, i) ==
    IF i < Len(a)
    THEN IF action[Array_get(a, i)] = "false"
         THEN <<i>>
         ELSE <<i>> \o ReadOnlyCollection_untilFrom(a, action, i + 1)
    ELSE <<>>

\* the indices ReadOnlyCollection.fromLastUntil calls action with, from i down
RECURSIVE ReadOnlyCollection_fromLastUntilFrom(_, _, _)
ReadOnlyCollection_fromLastUntilFrom(a, action, i) ==
    IF i >= 0
    THEN IF action[Array_get(a, i)] = "false"
         THEN <<i>>
         ELSE <<i>> \o ReadOnlyCollection_fromLastUntilFrom(a, action, i - 1)
    ELSE <<>>

\* the indices Dictionary.until calls action with, from index i on
RECURSIVE Dictionary_untilFrom(_, _, _, _)
Dictionary_untilFrom(ks, vs, action, i) ==
    IF i < Len(ks)
    THEN IF action[KeyValuePair(ks, vs, i)] = "false"
         THEN <<i>>
         ELSE <<i>> \o Dictionary_untilFrom(ks, vs, action, i + 1)
    ELSE <<>>

\* the indices Dictionary.fromLastUntil calls action with, from i down
RECURSIVE Dictionary_fromLastUntilFrom(_, _, _, _)
Dictionary_fromLastUntilFrom(ks, vs, action, i) ==
    IF i >= 0
    THEN IF action[KeyValuePair(ks, vs, i)] = "false"
         THEN <<i>>
         ELSE <<i>> \o Dictionary_fromLastUntilFrom(ks, vs, action, i - 1)
    ELSE <<>>

\* whether the callback returned false on the last of the calls made on elems
StoppedOn(elems, action, calls) ==
    calls # <<>> /\ action[elems[calls[Len(calls)] + 1]] = "false"

\* all with the test if (predicate(ele)): stops on the first element that passes
ReadOnlyCollection_all_stopsOnPass(a, P) ==
    LET action == [ele \in Range(a) |-> IF ele \in P THEN "false" ELSE Undefined]
    IN  ~StoppedOn(a, action, ReadOnlyCollection_untilFrom(a, action, 0))

\* var result = true;
\* this.until((ele) => { if (!predicate(ele)) { result = false; return false; } });
ReadOnlyCollection_all(a, P) ==
    LET action == [ele \in Range(a) |-> IF ~(ele \in P) THEN "false" ELSE Undefined]
    IN  ~StoppedOn(a, action, ReadOnlyCollection_untilFrom(a, action, 0))

\* var result = false;
\* this.until((ele) => { if (predicate(ele)) { result = true; return false; } });
ReadOnlyCollection_any(a, P) ==
    LET action == [ele \in Range(a) |-> IF ele \in P THEN "false" ELSE Undefined]
    IN  StoppedOn(a, action, ReadOnlyCollection_untilFrom(a, action, 0))

\* Dictionary.all: the same closure over Dictionary.until
Dictionary_all(ks, vs, P) ==
    LET es == Dictionary_entries(ks, vs)
        action == [ele \in Range(es) |-> IF ~(ele \in P) THEN "false" ELSE Undefined]
    IN  ~StoppedOn(es, action, Dictionary_untilFrom(ks, vs, action, 0))

\* Dictionary.any: the same closure over Dictionary.until
Dictionary_any(ks, vs, P) ==
    LET es == Dictionary_entries(ks, vs)
        action == [ele \in Range(es) |-> IF ele \in P THEN "false" ELSE Undefined]
    IN  StoppedOn(es, action, Dictionary_untilFrom(ks, vs, action, 0))

\* all(predicate) on the receiver; List and Queue hand it to their readonly
Receiver_all(kind, P) ==
    IF kind = "Dictionary" THEN Dictionary_all(keys, values, P)
    ELSE ReadOnlyCollection_all(ReadOnlyCollection_arr(kind), P)

\* any(predicate) on the receiver; List and Queue hand it to their readonly
Receiver_any(kind, P) ==
    IF kind = "Dictionary" THEN Dictionary_any(keys, values, P)
    ELSE ReadOnlyCollection_any(ReadOnlyCollection_arr(kind), P)

\* last() without a predicate
ReadOnlyCollection_last(a) == Array_get(a, Len(a) - 1)

\* first with a closure that never returns false
ReadOnlyCollection_first_predicate_keepsGoing(a, P) ==
    LET hits == {i \in 0..(Len(a) - 1) : Array_get(a, i) \in P}
    IN  [result |-> IF hits = {} THEN Undefined
                    ELSE Array_get(a, CHOOSE i \in hits : \A j \in hits : j <= i),
         calls |-> [i \in 1..Len(a) |-> i - 1]]

\* first(predicate): var result;
\* this.until((ele) => { if (predicate(ele)) { result = ele; return false; } });
\* with the indices the predicate was called on
ReadOnlyCollection_first_predicate(a, P) ==
    LET action == [ele \in Range(a) |-> IF ele \in P THEN "false" ELSE Undefined]
        calls == ReadOnlyCollection_untilFrom(a, action, 0)
    IN  [result |-> IF StoppedOn(a, action, calls)
                    THEN Array_get(a, calls[Len(calls)]) ELSE Undefined,
         calls |-> calls]

\* last(predicate): the same closure over fromLastUntil
ReadOnlyCollection_last_predicate(a, P) ==
    LET action == [ele \in Range(a) |-> IF ele \in P THEN "false" ELSE Undefined]
        calls == ReadOnlyCollection_fromLastUntilFrom(a, action, Len(a) - 1)
    IN  [result |-> IF StoppedOn(a, action, calls)
                    THEN Array_get(a, calls[Len(calls)]) ELSE Undefined,
         calls |-> calls]

\* firstOrDefault(defaultValue) of the ReadOnlyCollection that List and Queue
\* call: the first element, or defaultValue when there is none
ReadOnlyCollection_firstOrDefault(a, defaultValue) ==
    IF Len(a) = 0 THEN defaultValue ELSE Array_get(a, 0)

Dictionary_isEmpty(ks) == List_length(ks) = 0

\* first() without a predicate
Dictionary_first(ks, vs) ==
    IF Dictionary_isEmpty(ks) THEN Dictionary_getUndefinedKeyValue
    ELSE KeyValuePair(ks, vs, 0)

\* last() without a predicate
Dictionary_last(ks, vs) ==
    IF Dictionary_isEmpty(ks) THEN Dictionary_getUndefinedKeyValue
    ELSE KeyValuePair(ks, vs, List_length(ks) - 1)

\* first(predicate), with the indices the predicate was called on
Dictionary_first_predicate(ks, vs, P) ==
    LET es == Dictionary_entries(ks, vs)
        action == [ele \in Range(es) |-> IF ele \in P THEN "false" ELSE Undefined]
        calls == Dictionary_untilFrom(ks, vs, action, 0)
    IN  [result |-> IF StoppedOn(es, action, calls)
                    THEN KeyValuePair(ks, vs, calls[Len(calls)]) ELSE UndefinedObject,
         calls |-> calls]

\* last(predicate), with the indices the predicate was called on
Dictionary_last_predicate(ks, vs, P) ==
    LET es == Dictionary_entries(ks, vs)
        action == [ele \in Range(es) |-> IF ele \in P THEN "false" ELSE Undefined]
        calls == Dictionary_fromLastUntilFrom(ks, vs, action, List_length(ks) - 1)
    IN  [result |-> IF StoppedOn(es, action, calls)
                    THEN KeyValuePair(ks, vs, calls[Len(calls)]) ELSE UndefinedObject,
         calls |-> calls]

\* firstOrDefault without the isEmpty test
Dictionary_firstOrDefault_noEmptyTest(ks, vs, predicateOrDefaultValue, defaultValue) ==
    KeyValuePair(ks, vs, 0)

\* a predicate as a value: the function object that holds for the elements
\* of P
Function(P) == [function |-> P]

\* firstOrDefault(predicateOrDefaultValue, defaultValue?); a call with one
\* argument leaves defaultValue undefined
Dictionary_firstOrDefault(ks, vs, predicateOrDefaultValue, defaultValue) ==
    IF defaultValue = UndefinedObject
    THEN IF Dictionary_isEmpty(ks) THEN predicateOrDefaultValue
         ELSE KeyValuePair(ks, vs, 0)
    ELSE LET es == Dictionary_entries(ks, vs)
             action == [ele \in Range(es) |->
                           IF ele \in predicateOrDefaultValue.function
                           THEN "false" ELSE Undefined]
             calls == Dictionary_untilFrom(ks, vs, action, 0)
         IN  IF StoppedOn(es, action, calls)
             THEN KeyValuePair(ks, vs, calls[Len(calls)]) ELSE defaultValue

\* lastOrDefault(predicateOrDefaultValue, defaultValue?)
Dictionary_lastOrDefault(ks, vs, predicateOrDefaultValue, defaultValue) ==
    IF defaultValue = UndefinedObject
    THEN IF Dictionary_isEmpty(ks) THEN predicateOrDefaultValue
         ELSE KeyValuePair(ks, vs, List_length(ks) - 1)
    ELSE LET es == Dictionary_entries(ks, vs)
             action == [ele \in Range(es) |->
                           IF ele \in predicateOrDefaultValue.function
                           THEN "false" ELSE Undefined]
             calls == Dictionary_fromLastUntilFrom(ks, vs, action, List_length(ks) - 1)
         IN  IF StoppedOn(es, action, calls)
             THEN KeyValuePair(ks, vs, calls[Len(calls)]) ELSE defaultValue

\* undefined as a value of the element type of the receiver
UndefinedOf(kind) == IF kind = "Dictionary" THEN UndefinedObject ELSE Undefined

\* the default values firstOrDefault is called with
Defaults(kind) ==
    IF kind = "Dictionary" THEN {[key |-> "d", value |-> "d"], [key |-> "a", value |-> "v1"]}
    ELSE {"d", "x"}

\* first() on the receiver; List and Queue hand it to their readonly
Receiver_first(kind) ==
    IF kind = "Dictionary" THEN Dictionary_first(keys, values)
    ELSE ReadOnlyCollection_first(ReadOnlyCollection_arr(kind))

\* last() on the receiver
Receiver_last(kind) ==
    IF kind = "Dictionary" THEN Dictionary_last(keys, values)
    ELSE ReadOnlyCollection_last(ReadOnlyCollection_arr(kind))

\* first(predicate) on the receiver
Receiver_first_predicate(kind, P) ==
    IF kind = "Dictionary" THEN Dictionary_first_predicate(keys, values, P)
    ELSE ReadOnlyCollection_first_predicate(ReadOnlyCollection_arr(kind), P)

\* last(predicate) on the receiver
Receiver_last_predicate(kind, P) ==
    IF kind = "Dictionary" THEN Dictionary_last_predicate(keys, values, P)
    ELSE ReadOnlyCollection_last_predicate(ReadOnlyCollection_arr(kind), P)

\* firstOrDefault(defaultValue) on the receiver
Receiver_firstOrDefault(kind, defaultValue) ==
    IF kind = "Dictionary"
    THEN Dictionary_firstOrDefault(keys, values, defaultValue, UndefinedObject)
    ELSE ReadOnlyCollection_firstOrDefault(ReadOnlyCollection_arr(kind), defaultValue)

\* a query that changes no container; a behaviour observes one query, among
\* the calls that change a container
Query(o, r) ==
    /\ op.name \in {"new", "reverse"}
    /\ held.name = "none"
    /\ Called(o, r, "none")
    /\ UNCHANGED <<dictVars, queueVars, seqVars, iterVars>>

\* a query that returns a new collection, which the caller keeps
QueryHolding(o, r, h) ==
    /\ op.name \in {"new", "reverse"}
    /\ held.name = "none"
    /\ CalledHolding(o, r, "none", h)
    /\ UNCHANGED <<dictVars, queueVars, seqVars, iterVars>>

\* the array toArray() of the collection kept returns now: return this.arr,
\* which is the array the collection was built over
Held_toArray ==
    IF held.alias = "none" THEN held.arr ELSE ReadOnlyCollection_arr(held.alias)

\* the values a selector returns
Results == {"r1", "r2"}

\* the selectors select is called with: any function of the element, or for
\* a KeyValuePair any function of its key or of its value
Selectors(kind) ==
    IF kind = "Dictionary"
    THEN {[p \in Pairs |-> g[p.key]] : g \in [Keys -> Results]}
             \cup {[p \in Pairs |-> g[p.value]] : g \in [IterValues -> Results]}
    ELSE [IterElems -> Results]

\* a.map(selector): a new array of the results, for an array that has an
\* element at every index
Array_map(a, selector) ==
    [i \in 1..Len(a) |-> selector[a[i]]]

\* a.filter(predicate) from index i on: a new array of the elements that
\* pass, for an array that has an element at every index
RECURSIVE Array_filterFrom(_, _, _)
Array_filterFrom(a, P, i) ==
    IF i < Len(a)
    THEN (IF a[i + 1] \in P THEN <<a[i + 1]>> ELSE <<>>)
             \o Array_filterFrom(a, P, i + 1)
    ELSE <<>>

\* the array the queries of the receiver read: this.arr, or for a Dictionary
\* this.toArray(), the array of the List toList() builds
Receiver_toArray(kind) ==
    IF kind = "Dictionary" THEN Dictionary_toList ELSE ReadOnlyCollection_arr(kind)

\* select that writes the results into this.arr and wraps this.arr again
ReadOnlyCollection_select_overArr(kind, selector) ==
    [arr |-> Array_map(Receiver_toArray(kind), selector), alias |-> kind]

\* return new ReadOnlyCollection(this.arr.map(selector));
\* Dictionary: return new ReadOnlyCollection(this.toArray().map(selector))
ReadOnlyCollection_select(kind, selector) ==
    [arr |-> Array_map(Receiver_toArray(kind), selector), alias |-> "none"]

\* where whose filter keeps the elements that fail the predicate
ReadOnlyCollection_where_keepsFailing(kind, P) ==
    [arr |-> Array_filterFrom(Receiver_toArray(kind), ElemDomain(kind) \ P, 0),
     alias |-> "none"]

\* return new ReadOnlyCollection(this.arr.filter(predicate));
\* Dictionary: return new ReadOnlyCollection(this.toArray().filter(predicate))
ReadOnlyCollection_where(kind, P) ==
    [arr |-> Array_filterFrom(Receiver_toArray(kind), P, 0), alias |-> "none"]

Query_select(kind, selector) ==
    LET r == ReadOnlyCollection_select(kind, selector)
    IN  QueryHolding([name |-> "select", on |-> kind, selector |-> selector], r,
                     [name |-> "select", on |-> kind, selector |-> selector,
                      source |-> Receiver_toArray(kind),
                      arr |-> r.arr, alias |-> r.alias])

Query_where(kind, P) ==
    LET r == ReadOnlyCollection_where(kind, P)
    IN  QueryHolding([name |-> "where", on |-> kind, predicate |-> P], r,
                     [name |-> "where", on |-> kind, predicate |-> P,
                      source |-> Receiver_toArray(kind),
                      arr |-> r.arr, alias |-> r.alias])

\* reverse() on the receiver.  ReadOnlyCollection.reverse is
\* new ReadOnlyCollection(this.arr.reverse()): Array.reverse reverses this.arr
\* in place and returns it, so the result wraps the array of the receiver;
\* List and Queue hand the call to their readonly, whose arr is their
\* container.  Dictionary.reverse is this.toList().reverse(), on a new List.
Receiver_reverse(kind) ==
    /\ op.name \in {"new", "reverse", "select", "where"}
    /\ arr' = IF kind = "ReadOnlyCollection" THEN Array_reverse(arr) ELSE arr
    /\ list' = IF kind = "List" THEN Array_reverse(list) ELSE list
    /\ readonly' = readonly
    /\ q' = IF kind = "Queue" THEN Array_reverse(q) ELSE q
    /\ Called([name |-> "reverse", on |-> kind],
              [arr |-> IF kind = "Dictionary" THEN Array_reverse(Dictionary_toList)
                       ELSE Array_reverse(ReadOnlyCollection_arr(kind))],
              "none")
    /\ UNCHANGED <<dictVars, enq, deq, iterVars>>

\* the elements of the second sequence of zip
OtherElems == {"p", "q"}

\* what a resultSelector that keeps its arguments apart returns
ResultSelector(first, second, index) ==
    [first |-> first, second |-> second, index |-> index]

\* // TODO: Implement function
\* return undefined;
ReadOnlyCollection_zip(a, other) == UndefinedObject

\* var stop = Math.max(this.length(), collection.length());
\* var arr2 = collection.toArray();
\* result.add(resultSelector(i < this.length() ? new KeyValuePair(...)
\*     : Dictionary.getUndefinedKeyValue(), arr2[i], i)) for i from 0 to stop - 1
Dictionary_zip(ks, vs, other) ==
    LET stop == Max(List_length(ks), Len(other))
    IN  [arr |-> [i \in 1..stop |->
                     ResultSelector(IF i - 1 < List_length(ks)
                                    THEN KeyValuePair(ks, vs, i - 1)
                                    ELSE Dictionary_getUndefinedKeyValue,
                                    Array_get(other, i - 1), i - 1)]]

\* zip(collection, resultSelector) on the receiver; List and Queue hand it to
\* their readonly
Receiver_zip(kind, other) ==
    IF kind = "Dictionary" THEN Dictionary_zip(keys, values, other)
    ELSE ReadOnlyCollection_zip(ReadOnlyCollection_arr(kind), other)

Query_zip(kind, other) ==
    Query([name |-> "zip", on |-> kind, collection |-> other], Receiver_zip(kind, other))

Query_all(kind, P) ==
    Query([name |-> "all", on |-> kind, predicate |-> P], Receiver_all(kind, P))

Query_any(kind, P) ==
    Query([name |-> "any", on |-> kind, predicate |-> P], Receiver_any(kind, P))

Query_first(kind) == Query([name |-> "first", on |-> kind], Receiver_first(kind))

Query_last(kind) == Query([name |-> "last", on |-> kind], Receiver_last(kind))

Query_first_predicate(kind, P) ==
    LET r == Receiver_first_predicate(kind, P)
    IN  Query([name |-> "first(predicate)", on |-> kind, predicate |-> P,
               calls |-> r.calls], r.result)

Query_last_predicate(kind, P) ==
    LET r == Receiver_last_predicate(kind, P)
    IN  Query([name |-> "last(predicate)", on |-> kind, predicate |-> P,
               calls |-> r.calls], r.result)

Query_firstOrDefault(kind, defaultValue) ==
    Query([name |-> "firstOrDefault", on |-> kind, defaultValue |-> defaultValue],
          Receiver_firstOrDefault(kind, defaultValue))

\* firstOrDefault(predicate, defaultValue) on a Dictionary
Query_firstOrDefault_predicate(P, defaultValue) ==
    Query([name |-> "firstOrDefault(predicate)", on |-> "Dictionary",
           predicate |-> P, defaultValue |-> defaultValue],
          Dictionary_firstOrDefault(keys, values, Function(P), defaultValue))

\* lastOrDefault(predicate, defaultValue) on a Dictionary
Query_lastOrDefault_predicate(P, defaultValue) ==
    Query([name |-> "lastOrDefault(predicate)", on |-> "Dictionary",
           predicate |-> P, defaultValue |-> defaultValue],
          Dictionary_lastOrDefault(keys, values, Function(P), defaultValue))

----------------------------------------------------------------------------
(* Event: a List of handlers.  invoke is handlerList.each, Array.forEach on
   the array of the List, modelled one round at a time; a handler called in
   a round may call removeHandler or addHandler of the Event before it
   returns. *)

\* the handlers registered with the Event, and the arguments of invoke
Handlers == {"h1", "h2", "h3"}
EventArgs == {"e1", "e2"}

\* removeAll that takes out one occurrence
List_removeAll_once(c, item) == List_remove(c, item)

\* the container after List.removeAll(item):
\* while ((i = this.container.indexOf(item)) !== -1) this.container.splice(i, 1)
RECURSIVE List_removeAll(_, _)
List_removeAll(c, item) ==
    LET i == Array_indexOf(c, item)
    IN  IF i # -1 THEN List_removeAll(Array_spliceRest(c, i), item) ELSE c

\* an invoke is running
Event_busy == op.name = "invoke" /\ itPc = "loop"

\* the handlers removeHandler was called for and addHandler has not been
\* called for since, and the handlers whose registrations a handler has
\* changed during the invoke
Event_removed == IF held.name = "none" THEN {} ELSE held.removed
Event_changed == IF held.name = "none" THEN {} ELSE held.changed

\* a call on the Event from outside its handlers
EventCall(o, r, removed) ==
    /\ ~Event_busy
    /\ CalledHolding(o, r, "none",
                     [name |-> "handlers", removed |-> removed, changed |-> {}])
    /\ IterationOver
    /\ UNCHANGED <<dictVars, queueVars, arr, readonly>>

\* this.handlerList.add(handler); return handler;
Event_addHandler(handler) ==
    /\ Len(list) < MaxHandlers
    /\ list' = List_add(list, handler)
    /\ EventCall([name |-> "addHandler", handler |-> handler], handler,
                 Event_removed \ {handler})

\* this.handlerList.removeAll(handler);
Event_removeHandler(handler) ==
    /\ list' = List_removeAll(list, handler)
    /\ EventCall([name |-> "removeHandler", handler |-> handler], Undefined,
                 Event_removed \cup {handler})

\* this.handlerList.clear();
Event_removeAllHandlers ==
    /\ list' = List_clear(list)
    /\ EventCall([name |-> "removeAllHandlers"], Undefined, Event_removed)

\* the call of invoke(sender, e): this.handlerList.each(...); Array.forEach
\* reads the length of the array once, before its first round
Event_invoke(e) ==
    /\ ~Event_busy
    /\ CalledHolding([name |-> "invoke", sender |-> "sender", e |-> e,
                      len |-> Len(List_readonly_arr), after |-> op.name],
                     Undefined, "none",
                     [name |-> "handlers", removed |-> Event_removed, changed |-> {}])
    /\ itKind' = "List"
    /\ itDir' = "each"
    /\ itI' = 0
    /\ itCalls' = <<>>
    /\ itPc' = "loop"
    /\ UNCHANGED <<dictVars, queueVars, seqVars>>

\* what a handler does with the Event before it returns
Reactions ==
    {<<"nothing", "none">>}
        \cup {<<does, h>> : does \in {"removeHandler", "addHandler"}, h \in Handlers}

\* the handler list after the handler called has done reaction
Handler_call(c, reaction) ==
    CASE reaction[1] = "removeHandler" -> List_removeAll(c, reaction[2])
      [] reaction[1] = "addHandler" -> List_add(c, reaction[2])
      [] OTHER -> c

\* the round of forEach that visits index k: (handler) => handler(sender, e)
\* is called with the element at k, if the array still has one there
Array_forEach_round(reaction, k) ==
    /\ op.name = "invoke" /\ itPc = "loop"
    /\ LET a == List_readonly_arr
       IN  IF itI < op.len /\ k < Len(a)
           THEN /\ itCalls' = Append(itCalls,
                       [handler |-> a[k + 1], args |-> <<op.sender, op.e>>,
                        index |-> k, unregistered |-> a[k + 1] \in Event_removed])
                /\ list' = Handler_call(list, reaction)
                /\ Len(list') <= MaxHandlers
                /\ held' = [held EXCEPT
                      !.removed = CASE reaction[1] = "removeHandler" -> @ \cup {reaction[2]}
                                    [] reaction[1] = "addHandler" -> @ \ {reaction[2]}
                                    [] OTHER -> @,
                      !.changed = IF list' # list THEN @ \cup {reaction[2]} ELSE @]
                /\ itI' = itI + 1
                /\ itPc' = "loop"
           ELSE /\ reaction[1] = "nothing"
                /\ itI' = IF itI < op.len THEN itI + 1 ELSE itI
                /\ itPc' = IF itI < op.len THEN "loop" ELSE "done"
                /\ UNCHANGED <<list, held, itCalls>>
    /\ UNCHANGED <<op, ret, fault, pre, itKind, itDir, arr, readonly, dictVars, queueVars>>

\* an invoke that visits the indices from the last to the first
Event_invoke_round_fromLast(reaction) ==
    Array_forEach_round(reaction, op.len - 1 - itI)

\* one round of this.handlerList.each(...): forEach visits the indices in
\* ascending order
Event_invoke_round(reaction) == Array_forEach_round(reaction, itI)

----------------------------------------------------------------------------
(* The KeyValuePairs a Dictionary hands out.  A pair is an object of its   *)
(* own, built by new KeyValuePair(key, value) from the lists at the call;  *)
(* the caller keeps the pairs and may assign to their fields.              *)

\* the keys and values of the Dictionary whose pairs are handed out, and the
\* value the caller assigns to a field of a pair
PairKeys == {"a", "b"}
PairValues == {"v1", "v2"}
Assigned == "z"

\* the enumerations of a Dictionary that hand out pairs
Enumerations == {"toList", "toArray", "first", "last", "until", "each"}

\* the index of the first entry the enumeration via hands out, and the pairs
\* it hands out: new KeyValuePair(this.keys.at(i), this.values.at(i))
Enumeration_from(via) == IF via = "last" THEN Max(Dictionary_length - 1, 0) ELSE 0

Enumeration_pairs(via) ==
    CASE via = "first" ->
             IF Dictionary_isEmpty(keys) THEN <<>> ELSE <<Dictionary_first(keys, values)>>
      [] via = "last" ->
             IF Dictionary_isEmpty(keys) THEN <<>> ELSE <<Dictionary_last(keys, values)>>
      [] OTHER -> Dictionary_toList

\* the pairs the caller holds as they are now: objects of their own, or with
\* live the entries of the Dictionary they were made from
Held_pairs ==
    IF held.live
    THEN [j \in 1..Len(held.pairs) |->
             IF held.from + j <= Dictionary_length
             THEN KeyValuePair(keys, values, held.from + j - 1)
             ELSE held.pairs[j]]
    ELSE held.pairs

\* the caller keeps what the enumeration via handed out; seen is what the
\* caller has read from and written to the pairs
Dictionary_enumerate_holding(via, live) ==
    /\ held.name = "none"
    /\ CalledHolding([name |-> via], Enumeration_pairs(via), "none",
                     [name |-> "pairs", via |-> via, live |-> live,
                      from |-> Enumeration_from(via),
                      pairs |-> Enumeration_pairs(via),
                      seen |-> Enumeration_pairs(via),
                      assigned |-> 0])
    /\ UNCHANGED <<dictVars, queueVars, seqVars, iterVars>>

\* an enumeration whose pairs are views of the entries of the Dictionary
Dictionary_enumerate_live(via) == Dictionary_enumerate_holding(via, TRUE)

\* toList, toArray, first, last, until and each: every pair is a new object
Dictionary_enumerate(via) == Dictionary_enumerate_holding(via, FALSE)

\* pair.key = Assigned or pair.value = Assigned on the pair j the caller holds
KeyValuePair_assign(j, field) ==
    /\ held.name = "pairs"
    /\ j \in 1..Len(held.pairs)
    /\ held.assigned < MaxAssigns
    /\ held' = [held EXCEPT !.pairs[j][field] = Assigned,
                            !.seen[j][field] = Assigned,
                            !.assigned = @ + 1]
    /\ IF held.live /\ held.from + j <= Dictionary_length
       THEN /\ keys' = IF field = "key"
                       THEN List_put(keys, held.from + j - 1, Assigned) ELSE keys
            /\ values' = IF field = "value"
                         THEN List_put(values, held.from + j - 1, Assigned) ELSE values
       ELSE UNCHANGED <<keys, values>>
    /\ op' = [name |-> "assign", pair |-> j, field |-> field]
    /\ ret' = Undefined
    /\ pre' = Snapshot
    /\ UNCHANGED <<fault, amap, queueVars, seqVars, iterVars>>

----------------------------------------------------------------------------
(* Specifications *)

Init ==
    /\ keys = <<>>
    /\ values = <<>>
    /\ q = <<>>
    /\ list = <<>>
    /\ arr = <<>>
    /\ readonly = [alias |-> TRUE, arr |-> <<>>]
    /\ held = [name |-> "none"]
    /\ op = [name |-> "new"]
    /\ ret = Undefined
    /\ fault = "none"
    /\ pre = [keys |-> <<>>, values |-> <<>>, q |-> <<>>, list |-> <<>>, arr |-> <<>>]
    /\ amap = [k \in Keys |-> <<>>]
    /\ enq = <<>>
    /\ deq = <<>>
    /\ itKind = "none"
    /\ itDir = "none"
    /\ itI = 0
    /\ itCalls = <<>>
    /\ itPc = "idle"

\* a Dictionary under put, remove, retrieve and containsKey
NextDict ==
    \/ \E k \in Keys, v \in Values : Dictionary_put(k, v)
    \/ \E k \in Keys : Dictionary_remove(k)
    \/ \E k \in Keys : Dictionary_retrieve(k)
    \/ \E k \in Keys : Dictionary_containsKey(k)

SpecDict == Init /\ [][NextDict]_vars

\* a Dictionary under put and remove whose pairs a caller holds
NextDictPairs ==
    \/ \E k \in PairKeys, v \in PairValues : Dictionary_put(k, v)
    \/ \E k \in PairKeys : Dictionary_remove(k)
    \/ \E via \in Enumerations : Dictionary_enumerate(via)
    \/ \E j \in 1..MaxLen, field \in {"key", "value"} : KeyValuePair_assign(j, field)

SpecDictPairs == Init /\ [][NextDictPairs]_vars

\* a Queue under enqueue, dequeue and first
NextQueue ==
    \/ \E x \in Elems : Queue_enqueue(x)
    \/ Queue_dequeue
    \/ Queue_first

SpecQueue == Init /\ [][NextQueue]_vars

\* a Dictionary under put, remove and every query, on the Dictionary and on
\* the views of getKeys() and getValues()
NextDictViews ==
    \/ \E k \in Keys, v \in Values : Dictionary_put(k, v)
    \/ \E k \in Keys : Dictionary_remove(k)
    \/ \E m \in DictionaryQueries : Dictionary_query(m)
    \/ \E m \in EnumerableOps : Dictionary_getKeys_query(m)
    \/ \E m \in EnumerableOps : Dictionary_getValues_query(m)

SpecDictViews == Init /\ [][NextDictViews]_vars

\* a List under add, at, put, remove, removeAll, removeAt and clear
NextList ==
    \/ \E item \in ListItems : ListCall_add(item)
    \/ \E index \in ListIndices : ListCall_at(index)
    \/ \E index \in ListIndices, item \in ListItems : ListCall_put(index, item)
    \/ \E index \in ListIndices : ListCall_removeAt(index)
    \/ \E item \in ListItems : ListCall_remove(item)
    \/ ListCall_clear
    \/ \E item \in ListItems : ListCall_removeAll(item)
    \/ List_removeAll_round
    \/ \E self \in BOOLEAN, source \in SeqsUpTo(ListItems, MaxRangeLen) :
           ListCall_addRange(self, source)
    \/ List_addRange_round

SpecList == Init /\ [][NextList]_vars

\* the loops of removeAll and of addRange are not suspended for ever
SpecListFair ==
    SpecList /\ WF_vars(List_removeAll_round) /\ WF_vars(List_addRange_round)

\* the key lists of length at most n a Dictionary can hold
KeyListsUpTo(n) ==
    {ks \in SeqsUpTo(Keys, n) :
        \A i, j \in 1..Len(ks) : i # j => ~StrictEquals(ks[i], ks[j])}

\* one container that earlier calls have filled, the others as constructed
InitIter ==
    /\ \E kind \in Kinds :
          /\ arr \in IF kind = "ReadOnlyCollection"
                     THEN SeqsUpTo(IterElems, MaxIterLen) ELSE {<<>>}
          /\ list \in IF kind = "List"
                      THEN SeqsUpTo(IterElems, MaxIterLen) ELSE {<<>>}
          /\ q \in IF kind = "Queue"
                   THEN SeqsUpTo(IterElems, MaxIterLen) ELSE {<<>>}
          /\ keys \in IF kind = "Dictionary" THEN KeyListsUpTo(MaxIterLen) ELSE {<<>>}
    /\ values \in [1..Len(keys) -> IterValues]
    /\ amap = [k \in Keys |->
                  IF \E i \in 1..Len(keys) : StrictEquals(keys[i], k)
                  THEN <<values[CHOOSE i \in 1..Len(keys) : StrictEquals(keys[i], k)]>>
                  ELSE <<>>]
    /\ enq = q
    /\ deq = <<>>
    /\ readonly = [alias |-> TRUE, arr |-> <<>>]
    /\ held = [name |-> "none"]
    /\ op = [name |-> "new"]
    /\ ret = Undefined
    /\ fault = "none"
    /\ pre = Snapshot
    /\ itKind = "none"
    /\ itDir = "none"
    /\ itI = 0
    /\ itCalls = <<>>
    /\ itPc = "idle"

\* until, fromLastUntil and each on each of the containers
NextIter ==
    \/ \E kind \in Kinds, dir \in {"until", "fromLastUntil"} : Iteration_begin(kind, dir)
    \/ \E r \in Returns : ReadOnlyCollection_until(r)
    \/ \E r \in Returns : ReadOnlyCollection_fromLastUntil(r)
    \/ \E r \in Returns : Dictionary_until(r)
    \/ \E r \in Returns : Dictionary_fromLastUntil(r)
    \/ \E kind \in Kinds : Each_begin(kind)
    \/ \E r \in Returns : ReadOnlyCollection_each(r)
    \/ \E r \in Returns : Dictionary_each(r)

SpecIter == InitIter /\ [][NextIter]_vars

\* the predicates a query on the receiver is called with: any test of the
\* element, or for a KeyValuePair any test of its key or of its value
Predicates(kind) ==
    IF kind = "Dictionary"
    THEN {{p \in Pairs : p.key \in K} : K \in SUBSET Keys}
             \cup {{p \in Pairs : p.value \in V} : V \in SUBSET IterValues}
    ELSE SUBSET IterElems

\* the queries of IEnumerable on each of the containers
NextEnum ==
    \/ \E kind \in Kinds : \E P \in Predicates(kind) : Query_all(kind, P)
    \/ \E kind \in Kinds : \E P \in Predicates(kind) : Query_any(kind, P)
    \/ \E kind \in Kinds : Query_first(kind)
    \/ \E kind \in Kinds : Query_last(kind)
    \/ \E kind \in Kinds : \E P \in Predicates(kind) : Query_first_predicate(kind, P)
    \/ \E kind \in Kinds : \E P \in Predicates(kind) : Query_last_predicate(kind, P)
    \/ \E kind \in Kinds : \E d \in Defaults(kind) : Query_firstOrDefault(kind, d)
    \/ \E kind \in Kinds : Receiver_reverse(kind)
    \/ \E kind \in Kinds : \E other \in SeqsUpTo(OtherElems, MaxOtherLen) :
           Query_zip(kind, other)
    \/ \E kind \in Kinds : \E selector \in Selectors(kind) : Query_select(kind, selector)
    \/ \E kind \in Kinds : \E P \in Predicates(kind) : Query_where(kind, P)
    \/ \E P \in Predicates("Dictionary") :
           \E d \in Defaults("Dictionary") \cup {UndefinedObject} :
               Query_firstOrDefault_predicate(P, d)
    \/ \E P \in Predicates("Dictionary") :
           \E d \in Defaults("Dictionary") \cup {UndefinedObject} :
               Query_lastOrDefault_predicate(P, d)

SpecEnum == InitIter /\ [][NextEnum]_vars

\* an Event under addHandler, removeHandler, removeAllHandlers and invoke
NextEvent ==
    \/ \E handler \in Handlers : Event_addHandler(handler)
    \/ \E handler \in Handlers : Event_removeHandler(handler)
    \/ Event_removeAllHandlers
    \/ \E e \in EventArgs : Event_invoke(e)
    \/ \E reaction \in Reactions : Event_invoke_round(reaction)

SpecEvent == Init /\ [][NextEvent]_vars

----------------------------------------------------------------------------
(* Claims about the Dictionary *)

\* whether the key list a holds a key === k
HasKey(a, k) == \E i \in 1..Len(a) : StrictEquals(a[i], k)

\* the position (from 1) of the key === k in the key list a
KeyPos(a, k) == CHOOSE i \in 1..Len(a) : StrictEquals(a[i], k)

\* the sequence s without its element at position i (from 1)
Without(s, i) == [j \in 1..(Len(s) - 1) |-> IF j < i THEN s[j] ELSE s[j + 1]]

\* C1: in every state reached from the empty dictionary by put and remove
\* calls, the key list and the value list have the same length.
C1_LengthsAgree == List_length(keys) = List_length(values)

\* a remove of a present key has acted and entries are left
C1_Witness ==
    /\ op.name = "remove"
    /\ HasKey(pre.keys, op.key)
    /\ Len(keys) >= 1

\* C2: in every state reached from the empty dictionary by put and remove
\* calls, no two different indices of the key list hold keys that are equal
\* (===).
C2_KeysUnique ==
    \A i, j \in 1..Len(keys) : i # j => ~StrictEquals(keys[i], keys[j])

\* a put of a key that was already present, at index 0, has acted
C2_Witness ==
    /\ op.name = "put"
    /\ Len(pre.keys) >= 2
    /\ StrictEquals(pre.keys[1], op.key)

\* C3: retrieve(k) returns the value of the latest put(k, v) not followed by
\* remove(k), and undefined when there is none; containsKey(k) is true
\* exactly when there is one.
C3_RetrieveIsLatestPut ==
    /\ op.name = "retrieve" =>
          ret = IF amap[op.key] = <<>> THEN Undefined ELSE amap[op.key][1]
    /\ op.name = "containsKey" =>
          ret = IF amap[op.key] = <<>> THEN "false" ELSE "true"

\* a retrieve of a present key, stored behind another entry, has acted
C3_Witness ==
    /\ op.name = "retrieve"
    /\ amap[op.key] # <<>>
    /\ Len(keys) >= 2
    /\ List_indexOf(keys, op.key) = 1

\* C4: put of a present key replaces the value at the key's index and leaves
\* the length and the order of the keys unchanged; put of an absent key
\* appends the entry, so the length grows by 1 and the key is the last key.
C4_PutReplacesOrAppends ==
    op.name = "put" =>
        /\ Len(values) = Len(keys)
        /\ IF HasKey(pre.keys, op.key)
           THEN /\ Dictionary_getKeys = pre.keys
                /\ Dictionary_length = Len(pre.keys)
                /\ \A i \in 1..Len(keys) :
                      values[i] = IF i = KeyPos(pre.keys, op.key)
                                  THEN op.value ELSE pre.values[i]
           ELSE /\ Dictionary_length = Len(pre.keys) + 1
                /\ Dictionary_getKeys[Len(keys)] = op.key
                /\ values[Len(values)] = op.value
                /\ SubSeq(keys, 1, Len(keys) - 1) = pre.keys
                /\ SubSeq(values, 1, Len(values) - 1) = pre.values

\* a put has replaced the value of the first of two entries
C4_Witness ==
    /\ op.name = "put"
    /\ Len(pre.keys) = 2
    /\ StrictEquals(pre.keys[1], op.key)
    /\ pre.values[1] # op.value

\* C5: remove of a present key decreases the length by 1, returns the value
\* stored under the key and keeps every other entry, in order; remove of an
\* absent key returns undefined and leaves the dictionary unchanged.
C5_RemoveContract ==
    op.name = "remove" =>
        IF HasKey(pre.keys, op.key)
        THEN /\ Dictionary_length = Len(pre.keys) - 1
             /\ ret = pre.values[KeyPos(pre.keys, op.key)]
             /\ keys = Without(pre.keys, KeyPos(pre.keys, op.key))
             /\ values = Without(pre.values, KeyPos(pre.keys, op.key))
        ELSE /\ ret = Undefined
             /\ keys = pre.keys
             /\ values = pre.values

\* a remove has taken the middle one of three entries
C5_Witness ==
    /\ op.name = "remove"
    /\ Len(pre.keys) = 3
    /\ HasKey(pre.keys, op.key)
    /\ KeyPos(pre.keys, op.key) = 2

----------------------------------------------------------------------------
(* Claims about the Queue *)

\* C7: over any interleaving of enqueue and dequeue calls from an empty
\* queue, the values returned by dequeue on a non-empty queue are the
\* enqueued values in the order of their enqueue, each returned once: the
\* returned values are a prefix of the enqueued ones and the rest is still
\* queued, in order.
C7_Fifo ==
    /\ Len(deq) <= Len(enq)
    /\ deq = SubSeq(enq, 1, Len(deq))
    /\ q = SubSeq(enq, Len(deq) + 1, Len(enq))

\* two different values have been dequeued, with an enqueue between the two
\* dequeue calls, and a value is still queued
C7_Witness ==
    /\ op.name = "dequeue"
    /\ Len(deq) = 2
    /\ deq[1] # deq[2]
    /\ Len(pre.q) = 2
    /\ Len(enq) = 3

\* C8: dequeue on a non-empty queue returns what first() returned before the
\* call and removes it: the length decreases by 1 and every other element
\* moves down one index; enqueue(x) makes x the last element and changes
\* nothing else.
C8_DequeueTakesFirst ==
    /\ (op.name = "dequeue" /\ pre.q # <<>>) =>
          /\ ret = ReadOnlyCollection_first(pre.q)
          /\ Queue_length = Len(pre.q) - 1
          /\ \A i \in 1..Len(q) : q[i] = pre.q[i + 1]
    /\ op.name = "enqueue" =>
          /\ Queue_length = Len(pre.q) + 1
          /\ q[Len(q)] = op.item
          /\ \A i \in 1..Len(pre.q) : q[i] = pre.q[i]

\* a dequeue has taken the head of a queue of three different elements
C8_Witness ==
    /\ op.name = "dequeue"
    /\ Len(pre.q) = 3
    /\ pre.q[1] # pre.q[2]
    /\ pre.q[2] # pre.q[3]
    /\ ret = pre.q[1]

\* C9: dequeue on an empty queue returns undefined, raises nothing and leaves
\* the queue empty, which is the state of a freshly created queue.
C9_DequeueOnEmpty ==
    (op.name = "dequeue" /\ pre.q = <<>>) =>
        /\ ret = Undefined
        /\ fault = "none"
        /\ q = <<>>
        /\ Queue_length = 0

\* a dequeue has acted on a queue that earlier calls had filled and emptied
C9_Witness ==
    /\ op.name = "dequeue"
    /\ pre.q = <<>>
    /\ Len(enq) >= 1
    /\ Len(deq) = Len(enq)

----------------------------------------------------------------------------
(* Claims about reads of the Dictionary *)

\* C6: a query on the Dictionary, or an enumerable-contract operation
\* (reverse() included) on the views of getKeys() and getValues(), leaves
\* the ordered sequence of (key, value) entries as it was before the call.
C6_ReadsKeepEntries ==
    op.name = "query" =>
        Dictionary_toList = Dictionary_entries(pre.keys, pre.values)

\* the queries on the Dictionary itself leave the entries as they were
C6_DictionaryQueriesKeepEntries ==
    (op.name = "query" /\ op.on = "dictionary") =>
        Dictionary_toList = Dictionary_entries(pre.keys, pre.values)

----------------------------------------------------------------------------
(* Claims about until and fromLastUntil *)

\* the element of the receiver at index i, as action is to see it
ElementAt(kind, i) ==
    IF kind = "Dictionary" THEN [key |-> keys[i + 1], value |-> values[i + 1]]
    ELSE ReadOnlyCollection_arr(kind)[i + 1]

\* C10: on a sequence of length n, until calls action on the indices 0, 1,
\* ..., n-1 in that order and fromLastUntil on n-1, ..., 0, each with the
\* element at that index; the iteration ends right after the first call that
\* returns false, and no other returned value (undefined, 0, null) ends it
\* before every index has been visited.  For ReadOnlyCollection, List,
\* Queue and Dictionary.
C10_UntilVisitsInOrder ==
    (itPc # "idle" /\ itDir \in {"until", "fromLastUntil"}) =>
        LET n == Receiver_length(itKind)
            k == Len(itCalls)
        IN  /\ k <= n
            /\ \A j \in 1..k :
                  /\ itCalls[j].index = IF itDir = "until" THEN j - 1 ELSE n - j
                  /\ itCalls[j].value = ElementAt(itKind, itCalls[j].index)
                  /\ j < k => itCalls[j].ret # "false"
            /\ (itPc = "loop" /\ k > 0) => itCalls[k].ret # "false"
            /\ itPc = "done" => (k = n \/ itCalls[k].ret = "false")

\* a fromLastUntil on a Dictionary of three entries has gone on after
\* action returned 0 and has ended on false before reaching index 0
C10_Witness ==
    /\ itPc = "done"
    /\ itKind = "Dictionary"
    /\ itDir = "fromLastUntil"
    /\ Dictionary_length = 3
    /\ Len(itCalls) = 2
    /\ itCalls[1].ret = "0"
    /\ itCalls[2].ret = "false"

----------------------------------------------------------------------------
(* Claims about the queries of IEnumerable *)

\* the elements of the receiver, in order
Elements(kind) ==
    IF kind = "Dictionary" THEN Dictionary_entries(keys, values)
    ELSE ReadOnlyCollection_arr(kind)

\* C11: on each of the four containers all(P) is true exactly when
\* any(x => !P(x)) is false, and any(P) is true exactly when all(x => !P(x))
\* is false; on an empty receiver all(P) is true and any(P) is false.
C11_AllIsNotAnyOfNegation ==
    /\ op.name = "all" =>
          /\ ret <=> ~Receiver_any(op.on, ElemDomain(op.on) \ op.predicate)
          /\ Receiver_length(op.on) = 0 => ret = TRUE
    /\ op.name = "any" =>
          /\ ret <=> ~Receiver_all(op.on, ElemDomain(op.on) \ op.predicate)
          /\ Receiver_length(op.on) = 0 => ret = FALSE

\* all(P) answered false on a List whose first element passes P and whose
\* second does not
C11_Witness ==
    /\ op.name = "all" /\ op.on = "List"
    /\ Len(list) >= 2
    /\ list[1] \in op.predicate
    /\ ~(list[2] \in op.predicate)
    /\ ret = FALSE

C12_WitnessFirst ==
    /\ op.name = "first" /\ op.on = "Queue"
    /\ Len(q) = 0
    /\ ret = Undefined

\* the positions (from 1) of the elements of the receiver that pass P
Passing(kind, P) == {i \in 1..Len(Elements(kind)) : Elements(kind)[i] \in P}

\* C13: first(predicate) returns the element of lowest index that passes the
\* predicate and last(predicate) the one of highest index; each returns
\* undefined when no element passes; the predicate is called on no element
\* beyond the one returned.
C13_FirstLastWithPredicate ==
    /\ op.name = "first(predicate)" =>
          LET hits == Passing(op.on, op.predicate)
          IN  IF hits = {} THEN ret = UndefinedOf(op.on)
              ELSE LET i == CHOOSE i \in hits : \A j \in hits : i <= j
                   IN  /\ ret = Elements(op.on)[i]
                       /\ \A c \in 1..Len(op.calls) : op.calls[c] + 1 <= i
    /\ op.name = "last(predicate)" =>
          LET hits == Passing(op.on, op.predicate)
          IN  IF hits = {} THEN ret = UndefinedOf(op.on)
              ELSE LET i == CHOOSE i \in hits : \A j \in hits : i >= j
                   IN  /\ ret = Elements(op.on)[i]
                       /\ \A c \in 1..Len(op.calls) : op.calls[c] + 1 >= i

\* first(predicate) on a List of three elements of which the second and the
\* third pass: the second is returned
C13_Witness ==
    /\ op.name = "first(predicate)" /\ op.on = "List"
    /\ Len(list) = 3
    /\ Passing("List", op.predicate) = {2, 3}
    /\ ret = list[2]
    /\ Len(op.calls) = 2

\* the elements of the receiver when the last call began
PreElements(kind) ==
    CASE kind = "Dictionary" -> Dictionary_entries(pre.keys, pre.values)
      [] kind = "List" -> pre.list
      [] kind = "Queue" -> pre.q
      [] OTHER -> pre.arr

\* C14: reverse() on a ReadOnlyCollection, a List or a Queue does not change
\* the receiver: after the call the receiver holds its elements in the same
\* order as before the call.
C14_ReverseKeepsReceiver ==
    (op.name = "reverse" /\ op.on \in {"ReadOnlyCollection", "List", "Queue"}) =>
        Elements(op.on) = PreElements(op.on)

\* reverse() on a Dictionary does not change the Dictionary
C14_DictionaryReverseKeepsReceiver ==
    (op.name = "reverse" /\ op.on = "Dictionary") =>
        keys = pre.keys /\ values = pre.values

\* C15: reverse() returns a sequence of the length n of the receiver whose
\* element i is the element n-1-i the receiver had when it was called, on
\* ReadOnlyCollection, List, Queue and (over its pairs) Dictionary.
C15_ReverseResult ==
    op.name = "reverse" =>
        LET e == PreElements(op.on)
            n == Len(e)
        IN  /\ Len(ret.arr) = n
            /\ \A i \in 0..(n - 1) : ret.arr[i + 1] = e[(n - 1 - i) + 1]

\* reverse() was called on a Queue of three elements whose first and last
\* differ
C15_Witness ==
    /\ op.name = "reverse" /\ op.on = "Queue"
    /\ Len(pre.q) = 3
    /\ pre.q[1] # pre.q[3]
    /\ ret.arr[1] = pre.q[3]

\* whether the sequence r returned by zip on a receiver with the elements e
\* merges e with other: max(n, m) results, result i made from element i of
\* each, undefined standing in past the end of the shorter one
IsZipOf(r, e, other, undef) ==
    /\ r # UndefinedObject
    /\ Len(r.arr) = Max(Len(e), Len(other))
    /\ \A i \in 0..(Len(r.arr) - 1) :
          /\ r.arr[i + 1].first = (IF i < Len(e) THEN e[i + 1] ELSE undef)
          /\ r.arr[i + 1].second = (IF i < Len(other) THEN other[i + 1] ELSE Undefined)

\* C16: zip(other, resultSelector) on every container returns a sequence of
\* length max(n, m) whose element i is resultSelector(a, b), a being element
\* i of the receiver and b element i of other, each undefined past its end.
C16_ZipPads ==
    op.name = "zip" =>
        IsZipOf(ret, Elements(op.on), op.collection, UndefinedOf(op.on))

\* zip on a Dictionary merges its pairs with other
C16_DictionaryZipPads ==
    (op.name = "zip" /\ op.on = "Dictionary") =>
        IsZipOf(ret, Elements(op.on), op.collection, UndefinedOf(op.on))

\* zip on a Dictionary of one entry with a sequence of two elements
C16_DictionaryWitness ==
    /\ op.name = "zip" /\ op.on = "Dictionary"
    /\ Len(keys) = 1 /\ Len(op.collection) = 2
    /\ ret.arr[2].first = UndefinedObject

----------------------------------------------------------------------------
(* Claims about the List *)

\* whether index is a position of the list the call began with
ValidIndex(index) == index >= 0 /\ index < Len(pre.list)

\* the number of elements of the array a that are === item
Occurrences(a, item) == Cardinality({i \in 1..Len(a) : StrictEquals(a[i], item)})

\* the array a without its elements === item
WithoutItem(a, item) == SelectSeq(a, LAMBDA e : ~StrictEquals(e, item))

C17_RemoveAtMinusOne ==
    /\ op.name = "removeAt" /\ op.index = -1
    /\ Len(pre.list) = 2
    /\ list = SubSeq(pre.list, 1, 1)
    /\ ret = Array_get(pre.list, 1)

\* put(2, item) made a list of one element a list of three
C17_PutBeyondEnd ==
    /\ op.name = "put" /\ op.index = 2
    /\ Len(pre.list) = 1
    /\ Len(list) = 3

\* C18: removeAt(i) with 0 <= i < length returns the element that was at
\* index i and makes the list one shorter: the elements below i stay where
\* they were, the elements above i move down by one.
C18_RemoveAtShifts ==
    (op.name = "removeAt" /\ ValidIndex(op.index)) =>
        /\ ret = Array_get(pre.list, op.index)
        /\ Len(list) = Len(pre.list) - 1
        /\ \A j \in 0..(op.index - 1) : list[j + 1] = pre.list[j + 1]
        /\ \A j \in op.index..(Len(list) - 1) : list[j + 1] = pre.list[j + 2]

\* removeAt(1) on a list of three different elements
C18_Witness ==
    /\ op.name = "removeAt" /\ op.index = 1
    /\ Len(pre.list) = 3
    /\ pre.list[1] # pre.list[2] /\ pre.list[2] # pre.list[3]
    /\ ret = pre.list[2]
    /\ list = <<pre.list[1], pre.list[3]>>

\* C19: remove(item) takes out the occurrence of item of lowest index and no
\* other: with k >= 1 occurrences before, k-1 remain, the list is one shorter
\* and every other element keeps its place in the order; with no occurrence
\* the list is unchanged.
C19_RemoveFirstOccurrence ==
    op.name = "remove" =>
        LET k == Occurrences(pre.list, op.item)
        IN  IF k = 0 THEN list = pre.list
            ELSE /\ Occurrences(list, op.item) = k - 1
                 /\ Len(list) = Len(pre.list) - 1
                 /\ list = Without(pre.list, Array_indexOf(pre.list, op.item) + 1)

\* remove(item) on a list that held item at its first and last index, and
\* another element between them
C19_Witness ==
    /\ op.name = "remove"
    /\ Len(pre.list) = 3
    /\ pre.list[1] = op.item /\ pre.list[3] = op.item /\ pre.list[2] # op.item
    /\ op.item # NaN
    /\ list = <<pre.list[2], pre.list[3]>>

\* C20: removeAll(item) terminates, and when it has returned indexOf(item) is
\* -1, the list is shorter by the number of occurrences of item it held, and
\* the elements other than item are all there in their order.
C20_RemoveAllTerminates ==
    /\ [](op.name = "removeAll" => <>(op.name = "removeAll" /\ op.done))
    /\ []((op.name = "removeAll" /\ op.done) =>
             /\ List_indexOf(list, op.item) = -1
             /\ Len(list) = Len(pre.list) - Occurrences(pre.list, op.item)
             /\ list = WithoutItem(pre.list, op.item))

\* removeAll(item) has returned on a list that held item twice
C20_Witness ==
    /\ op.name = "removeAll" /\ op.done
    /\ Occurrences(pre.list, op.item) = 2
    /\ Len(pre.list) = 3
    /\ Len(list) = 1

\* the elements the array a holds, its holes left out
Present(a) == SelectSeq(a, LAMBDA e : e # Hole)

C21_WitnessOther ==
    /\ op.name = "addRange" /\ itPc = "done"
    /\ ~op.self
    /\ Len(pre.list) = 1 /\ Len(op.source) = 2
    /\ list = pre.list \o op.source

----------------------------------------------------------------------------
(* Claims about select, where and each *)

\* C22: select(f) followed by toArray() yields an array of the length n of
\* the sequence whose element i is f(original[i]), and it stays that array
\* whatever is done to the source container afterwards.
C22_SelectMapsAndIsIndependent ==
    held.name = "select" =>
        LET r == Held_toArray
            e == held.source
        IN  /\ Len(r) = Len(e)
            /\ \A i \in 0..(Len(e) - 1) : r[i + 1] = held.selector[e[i + 1]]

\* a List of two different elements was reversed after select was called on
\* it with a selector that tells them apart
C22_Witness ==
    /\ held.name = "select" /\ held.on = "List"
    /\ op.name = "reverse" /\ op.on = "List"
    /\ Len(held.source) = 2
    /\ held.selector[held.source[1]] # held.selector[held.source[2]]
    /\ list # held.source
    /\ Held_toArray = <<held.selector[held.source[1]], held.selector[held.source[2]]>>

\* the positions (from 1) of the elements of e that pass P
PassingIn(e, P) == {i \in 1..Len(e) : e[i] \in P}

\* C23: where(p) followed by toArray() yields, in their order, exactly the
\* elements of the sequence that pass p, each as often as it occurs, so at
\* most n of them; the call leaves the source sequence as it was.
C23_WhereFilters ==
    /\ held.name = "where" =>
          LET r == Held_toArray
              e == held.source
              hits == PassingIn(e, held.predicate)
          IN  /\ Len(r) = Cardinality(hits)
              /\ Len(r) <= Len(e)
              /\ \A j \in 1..Len(r) :
                    r[j] = e[CHOOSE i \in hits : Cardinality({k \in hits : k <= i}) = j]
    /\ op.name = "where" => Elements(op.on) = PreElements(op.on)

\* where on a Queue of three elements kept the first and the third
C23_Witness ==
    /\ op.name = "where" /\ op.on = "Queue"
    /\ Len(q) = 3
    /\ PassingIn(q, op.predicate) = {1, 3}
    /\ ret.arr = <<q[1], q[3]>>

\* what C24 says of a call of each on a container of the kinds in kinds
EachCallsEveryElement(kinds) ==
    (itDir = "each" /\ itKind \in kinds) =>
        LET n == Receiver_length(itKind)
            k == Len(itCalls)
        IN  /\ k <= n
            /\ \A j \in 1..k : itCalls[j].args = <<ElementAt(itKind, j - 1), j - 1>>
            /\ itPc = "loop" => k = itI
            /\ itPc = "done" => k = n

\* C24: each(action) calls action(element, index) once for every element, in
\* ascending order of the index, with the index the position of the element,
\* and goes on whatever action returns (false included); for
\* ReadOnlyCollection, List, Queue and Dictionary.
C24_EachCallsEveryElement == EachCallsEveryElement(Kinds)

\* the same for the three containers whose each is Array.forEach
C24_ForEachCallsEveryElement == EachCallsEveryElement(Kinds \ {"Dictionary"})

\* each on a Queue of three elements has ended after three calls, the first
\* of which returned false
C24_ForEachWitness ==
    /\ itDir = "each" /\ itKind = "Queue" /\ itPc = "done"
    /\ Len(q) = 3
    /\ Len(itCalls) = 3
    /\ itCalls[1].ret = "false"

\* each on a Dictionary has called action with the pair alone
C24_DictionaryEachPassesNoIndex ==
    /\ itDir = "each" /\ itKind = "Dictionary"
    /\ Len(itCalls) = 1
    /\ itCalls[1].args = <<KeyValuePair(keys, values, 0)>>

----------------------------------------------------------------------------
(* Claims about the Event *)

\* the handlers called so far by the invoke, in the order of the calls
Called_handlers == [j \in 1..Len(itCalls) |-> itCalls[j].handler]

\* the number of calls the invoke has made of handler h
CallsOf(h) == Cardinality({j \in 1..Len(itCalls) : itCalls[j].handler = h})

\* an invoke has returned
Event_invoked == op.name = "invoke" /\ itPc = "done"

\* C25: when no handler changes the handler list during the dispatch,
\* invoke(sender, e) calls every registered handler with (sender, e), once
\* for each addHandler that registered it, in the order of registration;
\* an invoke after removeAllHandlers() calls no handler.
C25_InvokeCallsRegistered ==
    /\ (Event_invoked /\ Event_changed = {}) =>
          /\ Called_handlers = pre.list
          /\ \A j \in 1..Len(itCalls) : itCalls[j].args = <<op.sender, op.e>>
    /\ (Event_invoked /\ op.after = "removeAllHandlers") => itCalls = <<>>

\* an invoke has called h1, h2 and again h1, registered in that order
C25_Witness ==
    /\ Event_invoked /\ Event_changed = {}
    /\ pre.list = <<"h1", "h2", "h1">>
    /\ Called_handlers = <<"h1", "h2", "h1">>
    /\ itCalls[3].args = <<"sender", op.e>>

\* an invoke right after removeAllHandlers has returned
C25_WitnessAfterRemoveAll ==
    /\ Event_invoked
    /\ op.after = "removeAllHandlers"
    /\ Event_removed # {}

\* C26: after removeHandler(h), no invoke calls h until h is added again,
\* however often h had been added; the other handlers keep their
\* registrations and their order.
C26_RemovedHandlerIsNotCalled ==
    /\ \A j \in 1..Len(itCalls) : op.name = "invoke" => ~itCalls[j].unregistered
    /\ op.name = "removeHandler" =>
          /\ Occurrences(list, op.handler) = 0
          /\ list = WithoutItem(pre.list, op.handler)
    /\ \A h \in Event_removed : Occurrences(List_readonly_arr, h) = 0

\* an invoke has called h2 alone, after removeHandler took out h1, which had
\* been added twice
C26_Witness ==
    /\ Event_invoked
    /\ op.after = "removeHandler"
    /\ pre.list = <<"h2">>
    /\ "h1" \in Event_removed
    /\ Called_handlers = <<"h2">>

\* removeHandler has taken two registrations of h1 from around h2
C26_WitnessTwice ==
    /\ op.name = "removeHandler" /\ op.handler = "h1"
    /\ pre.list = <<"h1", "h2", "h1">>
    /\ list = <<"h2">>

\* C30: invoke calls, once for each registration, every handler that was
\* registered when the dispatch began and is still registered when it ends,
\* also when handlers call removeHandler or addHandler during the dispatch;
\* a handler added during the dispatch is not called in that dispatch.
C30_InvokeUnderReentrancy ==
    Event_invoked =>
        \A h \in Handlers :
            /\ (Occurrences(pre.list, h) > 0 /\ h \notin Event_changed) =>
                   CallsOf(h) = Occurrences(pre.list, h)
            /\ Occurrences(pre.list, h) = 0 => CallsOf(h) = 0

\* h1, called first, removed itself, and the invoke returned without a call
\* of h2, registered all along
C30_SkipsHandlerAfterRemoval ==
    /\ Event_invoked
    /\ pre.list = <<"h1", "h2">>
    /\ list = <<"h2">>
    /\ Called_handlers = <<"h1">>

\* h3 was added during the dispatch and called in it
C30_CallsHandlerAddedInDispatch ==
    /\ Event_invoked
    /\ Occurrences(pre.list, "h3") = 0
    /\ CallsOf("h3") > 0

\* a handler added during the dispatch is not called in it when no handler
\* removes one
C30_AddedIsNotCalledWithoutRemoval ==
    (Event_invoked /\ list = pre.list \o SubSeq(list, Len(pre.list) + 1, Len(list))) =>
        Called_handlers = pre.list

----------------------------------------------------------------------------
(* Claims about the defaults of the Dictionary *)

\* what C27 says of the calls whose default is one of defaults
OrDefaultWithPredicate(defaults) ==
    /\ (op.name = "firstOrDefault(predicate)" /\ op.defaultValue \in defaults) =>
          LET hits == Passing("Dictionary", op.predicate)
          IN  IF hits = {} THEN ret = op.defaultValue
              ELSE ret = Elements("Dictionary")[CHOOSE i \in hits : \A j \in hits : i <= j]
    /\ (op.name = "lastOrDefault(predicate)" /\ op.defaultValue \in defaults) =>
          LET hits == Passing("Dictionary", op.predicate)
          IN  IF hits = {} THEN ret = op.defaultValue
              ELSE ret = Elements("Dictionary")[CHOOSE i \in hits : \A j \in hits : i >= j]

\* C27: on a Dictionary firstOrDefault(predicate, d) returns the entry of
\* lowest index that passes the predicate, or d when no entry passes, and
\* lastOrDefault(predicate, d) the entry of highest index or d, for every d,
\* undefined included.
C27_OrDefaultWithPredicate ==
    OrDefaultWithPredicate(Defaults("Dictionary") \cup {UndefinedObject})

\* the same for the defaults that are not undefined
C27_OrDefaultWithDefinedDefault == OrDefaultWithPredicate(Defaults("Dictionary"))

\* lastOrDefault(predicate, d) with d a pair has returned the second of three
\* entries, the third not passing
C27_DefinedDefaultWitness ==
    /\ op.name = "lastOrDefault(predicate)"
    /\ op.defaultValue \in Defaults("Dictionary")
    /\ Dictionary_length = 3
    /\ Passing("Dictionary", op.predicate) = {1, 2}
    /\ ret = KeyValuePair(keys, values, 1)

\* firstOrDefault(predicate, undefined) has returned the first entry, which
\* does not pass the predicate
C27_UndefinedDefaultReturnsFirst ==
    /\ op.name = "firstOrDefault(predicate)"
    /\ op.defaultValue = UndefinedObject
    /\ Dictionary_length > 0
    /\ Passing("Dictionary", op.predicate) = {}
    /\ ret = KeyValuePair(keys, values, 0)

\* lastOrDefault(predicate, undefined) on an empty Dictionary has returned
\* the predicate
C27_UndefinedDefaultReturnsPredicate ==
    /\ op.name = "lastOrDefault(predicate)"
    /\ op.defaultValue = UndefinedObject
    /\ Dictionary_length = 0
    /\ ret = Function(op.predicate)

----------------------------------------------------------------------------
(* Claims about the List and its readonly *)

\* C28: in every state of a List reached by add, addRange, put with a valid
\* index, remove, removeAll, removeAt and clear (the states in which every
\* index below the length holds an element), the readonly of the List reads
\* the storage of the List: length() is the number of elements the delegated
\* queries visit, at(i) is the element they see at index i, and after
\* clear() length() is 0 and they visit nothing.
C28_ReadonlySeesContainer ==
    Present(list) = list =>
        LET a == ReadOnlyCollection_arr("List")
        IN  /\ List_length(list) = Len(Present(a))
            /\ \A i \in 0..(List_length(list) - 1) : List_at(list, i) = Array_get(a, i)
            /\ op.name = "clear" => (List_length(list) = 0 /\ a = <<>>)

\* clear() has emptied a List of three elements, and its readonly with it
C28_Witness ==
    /\ op.name = "clear"
    /\ Len(pre.list) = 3
    /\ List_length(list) = 0
    /\ ReadOnlyCollection_arr("List") = <<>>

\* the readonly sees the two elements left after a removeAt
C28_WitnessRemoveAt ==
    /\ op.name = "removeAt"
    /\ Len(pre.list) = 3
    /\ ReadOnlyCollection_arr("List") = <<pre.list[1], pre.list[3]>>

----------------------------------------------------------------------------
(* Claims about the pairs of the Dictionary *)

\* C29: the KeyValuePairs an enumeration of a Dictionary (toList, toArray,
\* first, last, until, each) hands out are snapshots: a later put or remove
\* changes neither the key nor the value of a pair handed out before, and an
\* assignment to the key or the value of a pair handed out does not change
\* the entries of the Dictionary.
C29_PairsAreSnapshots ==
    /\ held.name = "pairs" => Held_pairs = held.seen
    /\ op.name = "assign" => (keys = pre.keys /\ values = pre.values)

\* toList handed out the pairs of a and b; then the value of a was put anew
\* and b removed, and the pairs still read as handed out
C29_Witness ==
    /\ held.name = "pairs" /\ held.via = "toList"
    /\ held.assigned = 0
    /\ Len(held.seen) = 2
    /\ Dictionary_length = 1
    /\ keys[1] = held.seen[1].key
    /\ values[1] # held.seen[1].value
    /\ Held_pairs = held.seen

\* the value of the pair first() handed out was assigned to, and the
\* Dictionary still holds the value it held
C29_WitnessAssign ==
    /\ op.name = "assign" /\ op.field = "value"
    /\ held.via = "first"
    /\ Held_pairs[1].value = Assigned
    /\ Dictionary_length > 0
    /\ values[1] \in PairValues
    /\ values = pre.values

====
